---- MODULE Spec2Model ----
(***************************************************************************)
(* Scoring-and-dispatch pipeline of telegram-daily-digest:                 *)
(* ContentFilterService, AIProcessorService, NewsScoreService,             *)
(* CriticalNewsDetector, NotificationService, NotificationSender and       *)
(* MessageProcessingPipeline over the persisted messages / notifications   *)
(* tables.  Asynchronous calls interleave at their await points.  A stage  *)
(* of processSingleMessage and the delivery of one record are one step     *)
(* each; calls interleave between these steps.  The failures of the store, *)
(* of the assessment service and of the delivery channel are inputs of the *)
(* steps, at most MaxFaults of them in one behaviour.                      *)
(***************************************************************************)
EXTENDS Integers, Sequences, FiniteSets, TLC

VARIABLES
    messages,       \* messages table: message_id -> row
    notifications,  \* notifications table: notification_id (index) -> row
    isProcessing,   \* MessageProcessingPipeline.isProcessing
    config,         \* MessageProcessingPipeline.config (the enable* switches)
    lastIndex,      \* lastIndex of the two /g regexes in lowQualityPatterns
    calls,          \* the invocations of the public entry points
    delivered,      \* per notification: what the delivery channel was handed
    clock,          \* wall clock, minutes since midnight
    faults,         \* failures of the store, the services and the channel so far
    probe,          \* a direct call of one service method: its input and result
    processors      \* AIProcessorService and FilterProcessorService: flags and runs

vars == <<messages, notifications, isProcessing, config, lastIndex, calls,
          delivered, clock, faults, probe, processors>>

(***************************************************************************)
(* Bounds of the model.                                                    *)
(***************************************************************************)
NumMessages == 2
NumUsers == 2
MaxCalls == 2
MaxFaults == 1

MsgIds == 1..NumMessages
UserIds == 1..NumUsers
CallIds == 1..MaxCalls

(***************************************************************************)
(* Message contents, by the features the code reads from the text.         *)
(*  len/trimLen      content.length, content.trim().length                 *)
(*  adMatches        adPatterns that match                                 *)
(*  spamMatches      sum of matches.length over spamPatterns               *)
(*  upperCase        upperCaseRatio > 0.5 && length > 20                   *)
(*  wordRepeat       maxWordCount > max(30% of words, 3)                   *)
(*  lowQ             which lowQualityPattern the text is made of           *)
(*  keywords/markers CriticalNewsDetector lexicon and urgency-marker hits  *)
(*  breaking         CriticalNewsDetector.detectBreakingNews               *)
(*  emergency        detectEmergencyType is defined                        *)
(*  hasKeywords...   NewsScoreService.extractFactors                       *)
(*  fallbackWords    AIProcessorService fallback critical words present    *)
(*  kind             "string", or what the caller passed instead: "null"   *)
(*                   or "object" (neither a string nor falsy)              *)
(***************************************************************************)
BreakingText ==  \* "Breaking: urgent situation at a nuclear facility"
    [kind |-> "string", len |-> 47, trimLen |-> 47, media |-> "text", adMatches |-> 0,
     spamMatches |-> 0, upperCase |-> FALSE, wordRepeat |-> FALSE,
     lowQ |-> "none", keywords |-> 2, markers |-> 0, breaking |-> TRUE,
     emergency |-> FALSE, hasKeywords |-> TRUE, hasNumbers |-> FALSE,
     hasUrls |-> FALSE, scorerBreaking |-> FALSE, fallbackWords |-> FALSE]

AdText ==  \* "Купи крипто, ставки в казино! Жми!!!"
    [kind |-> "string", len |-> 36, trimLen |-> 36, media |-> "text", adMatches |-> 4,
     spamMatches |-> 2, upperCase |-> FALSE, wordRepeat |-> FALSE,
     lowQ |-> "none", keywords |-> 0, markers |-> 0, breaking |-> FALSE,
     emergency |-> FALSE, hasKeywords |-> FALSE, hasNumbers |-> FALSE,
     hasUrls |-> FALSE, scorerBreaking |-> FALSE, fallbackWords |-> FALSE]

DotsText ==  \* "..."
    [kind |-> "string", len |-> 3, trimLen |-> 3, media |-> "text", adMatches |-> 0,
     spamMatches |-> 0, upperCase |-> FALSE, wordRepeat |-> FALSE,
     lowQ |-> "dots", keywords |-> 0, markers |-> 0, breaking |-> FALSE,
     emergency |-> FALSE, hasKeywords |-> FALSE, hasNumbers |-> FALSE,
     hasUrls |-> FALSE, scorerBreaking |-> FALSE, fallbackWords |-> FALSE]

QuakeText ==  \* "СРОЧНО! Землетрясение магнитудой 6.5 произошло в регионе"
    [kind |-> "string", len |-> 56, trimLen |-> 56, media |-> "text", adMatches |-> 0,
     spamMatches |-> 1, upperCase |-> FALSE, wordRepeat |-> FALSE,
     lowQ |-> "none", keywords |-> 2, markers |-> 0, breaking |-> FALSE,
     emergency |-> TRUE, hasKeywords |-> TRUE, hasNumbers |-> TRUE,
     hasUrls |-> FALSE, scorerBreaking |-> FALSE, fallbackWords |-> TRUE]

Catalogue == <<BreakingText, DotsText, AdText, QuakeText>>

Content(m) == Catalogue[((m - 1) % Len(Catalogue)) + 1]

(***************************************************************************)
(* Recipients (users table; read-only to the pipeline).                    *)
(***************************************************************************)
NoQuietHours == [start |-> <<0, 0>>, end |-> <<0, 0>>, set |-> FALSE]

UserCatalogue ==
    << [is_active |-> TRUE, notifications |-> TRUE, importance_threshold |-> 50,
        quiet_hours |-> [start |-> <<22, 0>>, end |-> <<8, 0>>, set |-> TRUE]],
       [is_active |-> TRUE, notifications |-> TRUE, importance_threshold |-> 50,
        quiet_hours |-> NoQuietHours],
       [is_active |-> TRUE, notifications |-> FALSE, importance_threshold |-> 50,
        quiet_hours |-> NoQuietHours] >>

User(u) == UserCatalogue[((u - 1) % Len(UserCatalogue)) + 1]

\* Wall-clock readings (minutes since midnight) the calls may observe.
Clock == {210, 720}

Min(a, b) == IF a < b THEN a ELSE b
Max(a, b) == IF a > b THEN a ELSE b

(***************************************************************************)
(* ContentFilterService.  Confidences are in hundredths.                   *)
(***************************************************************************)
FilterThreshold == 70

checkForAds(c) ==
    [detected |-> c.adMatches > 0, confidence |-> Min(c.adMatches * 30, 100)]

checkForSpam(c) ==
    LET spamScore == c.spamMatches * 20
                     + (IF c.upperCase THEN 40 ELSE 0)
                     + (IF c.wordRepeat THEN 30 ELSE 0)
    IN [detected |-> spamScore > 0, confidence |-> Min(spamScore, 100)]

\* pattern.test(content) over lowQualityPatterns, stopping at the first match.
\* The second and third patterns carry the g flag, so test() starts at their
\* lastIndex and leaves it at the end of a match, or at 0 after a failure.
checkForLowQuality(c, li) ==
    LET short == c.trimLen < 3
        base == IF short THEN 80 ELSE 0
        dotsHit == c.lowQ = "dots" /\ li.dots = 0
        sepHit == c.lowQ = "sep" /\ li.sep = 0
    IN IF c.lowQ = "emoji"
       THEN [detected |-> TRUE, confidence |-> Max(base, 90), li |-> li]
       ELSE IF dotsHit
       THEN [detected |-> TRUE, confidence |-> Max(base, 90),
             li |-> [li EXCEPT !.dots = c.len]]
       ELSE IF sepHit
       THEN [detected |-> TRUE, confidence |-> Max(base, 90),
             li |-> [dots |-> 0, sep |-> c.len]]
       ELSE [detected |-> short, confidence |-> base,
             li |-> [dots |-> 0, sep |-> 0]]

filterContent(c, li) ==
    IF c.trimLen = 0
    THEN [isFiltered |-> c.media = "text", confidence |-> 100, li |-> li]
    ELSE LET ad == checkForAds(c)
             spam == checkForSpam(c)
             low == checkForLowQuality(c, li)
             confidence == Max(IF ad.detected THEN ad.confidence ELSE 0,
                           Max(IF spam.detected THEN spam.confidence ELSE 0,
                               IF low.detected THEN low.confidence ELSE 0))
             anyReason == ad.detected \/ spam.detected \/ low.detected
         IN [isFiltered |-> anyReason /\ confidence >= FilterThreshold,
             confidence |-> confidence, li |-> low.li]

(***************************************************************************)
(* NewsScoreService.calculateScore with the default weights (percent).     *)
(***************************************************************************)
calculateContentScore(c) ==
    Min(100, (IF c.len > 100 THEN 10 ELSE 0) + (IF c.len > 300 THEN 10 ELSE 0)
             + (IF c.len > 500 THEN 10 ELSE 0)
             + (IF c.hasKeywords THEN 20 ELSE 0)
             + (IF c.hasNumbers THEN 10 ELSE 0)
             + (IF c.hasUrls THEN 5 ELSE 0)
             + (IF c.media # "text" THEN 10 ELSE 0)
             + (IF c.scorerBreaking THEN 25 ELSE 0))

normalizeAIScore(s) == Max(0, Min(100, s))

\* channelReliability 0.5 (no verified flag, name in neither list), times 30
calculateSourceScore == Max(0, Min(100, 50 + 15))

calculateTimelinessScore(c, now) ==
    LET hour == now \div 60
    IN IF c.scorerBreaking THEN 100
       ELSE Max(0, Min(100, 50 + (IF hour >= 8 /\ hour <= 22 THEN 20 ELSE 0)
                               + (IF hour >= 9 /\ hour <= 18 THEN 10 ELSE 0)))

calculateScore(c, aiScore, now) ==
    LET weighted == 25 * calculateContentScore(c) + 50 * normalizeAIScore(aiScore)
                    + 15 * calculateSourceScore
                    + 10 * calculateTimelinessScore(c, now)
    IN Max(0, Min(100, (weighted + 50) \div 100))

\* AIProcessorService.getFallbackAnalysis: importance.score
getFallbackAnalysis(c) ==
    Min(100, 30 + (IF c.len > 200 THEN 15 ELSE 0) + (IF c.len > 500 THEN 15 ELSE 0)
                + (IF c.fallbackWords THEN 25 ELSE 0))

(***************************************************************************)
(* CriticalNewsDetector.analyze with the default configuration.            *)
(* msg is a messages row; detAI is the score of the detector's own         *)
(* assessment call, or -1 when it has no service or the call failed.       *)
(***************************************************************************)
CriticalCategories == {"breaking_news", "emergency", "disaster", "security",
                       "health_alert", "government_alert", "weather_emergency",
                       "military_action", "terrorism", "natural_disaster"}

determineTimeSensitivity(c, importance) ==
    IF c.markers > 0 \/ c.breaking THEN "immediate"
    ELSE IF c.keywords > 2 \/ importance > 85 THEN "urgent"
    ELSE IF c.keywords > 0 \/ importance > 70 THEN "important"
    ELSE "normal"

calculateCriticalityScore(c, importance, criticalCategory, sensitivity) ==
    LET tenths == importance * 6
                  + Min(c.keywords * 15 + c.markers * 10, 40) * 3
                  + (IF criticalCategory THEN 20 ELSE 0)
                  + (IF c.breaking THEN 150 ELSE 0)
                  + (IF c.emergency THEN 100 ELSE 0)
                  + (IF sensitivity = "immediate" THEN 100 ELSE 0)
                  + (IF sensitivity = "urgent" THEN 50 ELSE 0)
    IN Min((tenths + 5) \div 10, 100)

\* confidence in hundredths; aiReasoning: the detector's own assessment answered
calculateConfidence(c, criticalCategory, aiReasoning) ==
    LET indicators == c.keywords + c.markers + (IF criticalCategory THEN 1 ELSE 0)
                      + (IF c.breaking THEN 1 ELSE 0)
    IN Min(50 + (IF aiReasoning THEN 30 ELSE 0) + Min(indicators * 10, 40), 100)

\* the result of the catch block of analyze
SafeResult ==
    [is_critical |-> FALSE, criticality_score |-> 0, confidence |-> 0,
     failed |-> TRUE, action |-> "no_notification"]

\* the two thresholds of CriticalNewsConfig, as the constructor sets them
DefaultDetectorConfig == [critical_threshold |-> 80, emergency_threshold |-> 90]

determineRecommendedAction(score, cfg) ==
    IF score >= cfg.emergency_threshold THEN "immediate_notification"
    ELSE IF score >= cfg.critical_threshold THEN "priority_notification"
    ELSE IF score >= 60 THEN "standard_notification"
    ELSE "no_notification"

\* The text features of a content that is null: every `&& message.content`
\* guard of extractCriticalityFactors skips its block.
NoText(c) ==
    [c EXCEPT !.keywords = 0, !.markers = 0, !.breaking = FALSE, !.emergency = FALSE]

\* A content that is no string and not falsy makes content.toLowerCase()
\* throw inside the try block; failed: reasons is the 'Analysis failed' list.
analyzeConfigured(cfg, c, msg, detAI) ==
    IF c.kind = "object" THEN SafeResult
    ELSE LET truthy == c.kind = "string" /\ c.len > 0
             f == IF truthy THEN c ELSE NoText(c)
             criticalCategory == msg.category \in CriticalCategories
             sensitivity == determineTimeSensitivity(f, msg.importance_score)
             answered == truthy /\ detAI >= 0
             importance == IF answered THEN Max(msg.importance_score, detAI)
                           ELSE msg.importance_score
             score == calculateCriticalityScore(f, importance, criticalCategory,
                                                sensitivity)
         IN [is_critical |-> score >= cfg.critical_threshold,
             criticality_score |-> score,
             confidence |-> calculateConfidence(f, criticalCategory, answered),
             failed |-> FALSE, action |-> determineRecommendedAction(score, cfg)]

\* analyze of a detector constructed without a config argument
analyze(c, msg, detAI) == analyzeConfigured(DefaultDetectorConfig, c, msg, detAI)

(***************************************************************************)
(* NotificationService.isInQuietHours / shouldNotifyUser.                  *)
(***************************************************************************)
ParseTime(hm) == hm[1] * 60 + hm[2]

\* an isInQuietHours that compares start <= now <= end whatever their order
isInQuietHoursSameDay(user, now) ==
    IF ~user.quiet_hours.set THEN FALSE
    ELSE now >= ParseTime(user.quiet_hours.start)
         /\ now <= ParseTime(user.quiet_hours.end)

isInQuietHours(user, now) ==
    IF ~user.quiet_hours.set THEN FALSE
    ELSE LET startTime == ParseTime(user.quiet_hours.start)
             endTime == ParseTime(user.quiet_hours.end)
         IN IF startTime > endTime
            THEN now >= startTime \/ now <= endTime
            ELSE now >= startTime /\ now <= endTime

\* a shouldNotifyUser that lets any critical result through to a recipient
\* who turned notifications off
shouldNotifyUserAnyway(user, analysis, now) ==
    /\ ~(analysis.criticality_score < user.importance_threshold)
    /\ analysis.is_critical
    /\ ~(isInQuietHours(user, now) /\ analysis.criticality_score < 90)

shouldNotifyUser(user, analysis, now) ==
    /\ user.notifications
    /\ ~(analysis.criticality_score < user.importance_threshold)
    /\ analysis.is_critical
    /\ ~(isInQuietHours(user, now) /\ analysis.criticality_score < 90)

(***************************************************************************)
(* State.                                                                  *)
(***************************************************************************)
\* PipelineConfig switches the constructor (or updateConfig) may set;
\* hasSender is whether a TelegramBotService was passed to the constructor.
DefaultConfig ==
    [enableFiltering |-> TRUE, enableAIAnalysis |-> TRUE,
     enableNotifications |-> TRUE, enableAutoSending |-> TRUE, hasSender |-> TRUE]

Configs ==
    { DefaultConfig,
      [DefaultConfig EXCEPT !.enableFiltering = FALSE],
      [DefaultConfig EXCEPT !.enableAIAnalysis = FALSE],
      [DefaultConfig EXCEPT !.enableAutoSending = FALSE] }

\* A row as the feed stores it (column defaults of CREATE TABLE messages).
NewMessage ==
    [is_filtered |-> FALSE, is_processed |-> FALSE, importance_score |-> 0,
     category |-> "null"]

ZeroResult ==
    [success |-> FALSE, filtered |-> FALSE, analyzed |-> FALSE,
     notificationsCreated |-> 0, notificationsSent |-> 0, error |-> FALSE,
     \* what the call did for this message (observed, not read by the code)
     blocked |-> FALSE, filterWrite |-> "none", assessed |-> FALSE,
     externalCalls |-> 0,
     processedWrites |-> 0, storeFailed |-> FALSE]

ZeroStats ==
    [processed |-> 0, filtered |-> 0, analyzed |-> 0, notificationsCreated |-> 0,
     notificationsSent |-> 0, errors |-> 0]

ZeroDelivery ==
    [total |-> 0, successful |-> 0, failed |-> 0, results |-> <<>>, errors |-> <<>>]

\* no service method has been called directly
NoProbe == [op |-> "none", done |-> FALSE]

\* sendBulkNotifications' position in time: the recipient and outcome of the
\* latest sendNotification with the delay awaited since it returned, and the
\* delay (ms) that separated the latest two sendNotification calls.
NoAttempt == [user |-> 0, failed |-> FALSE, waited |-> 0]
NoGap == [from |-> 0, to |-> 0, ms |-> 0, fromFailed |-> FALSE]

\* AIProcessorService.getEmptyStats
getEmptyStats ==
    [processed |-> 0, successful |-> 0, failed |-> 0, skipped |-> 0, errors |-> 0]

\* the locals of processAllUnprocessedMessages / processAllUnfilteredMessages:
\* page size, offset, hasMore, the fetched page still to process, the totals;
\* how the call ended ("stats" returned or "throw"); and, observed only, the
\* messages that were pending when it started and the pages it has fetched
NoRun ==
    [batchSize |-> 0, offset |-> 0, hasMore |-> FALSE, page |-> <<>>,
     stats |-> getEmptyStats, outcome |-> "none", pending |-> {}, pages |-> 0,
     handled |-> 0]

IdleCall ==
    [kind |-> "idle", pc |-> "idle", msg |-> 0, queue |-> <<>>, snap |-> {},
     result |-> ZeroResult, stats |-> ZeroStats, refused |-> FALSE,
     created |-> <<>>, dlist |-> <<>>, delivery |-> ZeroDelivery,
     last |-> NoAttempt, gap |-> NoGap,
     \* processBatch (and sendBulkNotifications): the list it was given;
     \* processBatch: the messages it has passed to
     \* processSingleMessage and the success flags returned, in order
     input |-> <<>>, attempted |-> <<>>, outcomes |-> <<>>,
     \* and for each returned result whether it was a success with filtered=true
     passed |-> <<>>,
     \* sendAllPendingNotifications: the records that were unsent when it read
     \* the table (observed)
     unsent |-> {},
     \* a run of a stand-alone batch processor
     run |-> NoRun]

\* the two stand-alone processors: their isProcessing flags and
\* AIProcessorService.config.batchSize
NoProcessors == [ai |-> FALSE, filter |-> FALSE, batchSize |-> 50]

Init ==
    /\ messages = [m \in MsgIds |-> NewMessage]
    /\ notifications = <<>>
    /\ isProcessing = FALSE
    /\ config \in Configs
    /\ lastIndex = [dots |-> 0, sep |-> 0]
    /\ calls = [c \in CallIds |-> IdleCall]
    /\ delivered = <<>>
    /\ clock = 210
    /\ faults = 0
    /\ probe = NoProbe
    /\ processors = NoProcessors

(***************************************************************************)
(* Helpers over sequences.                                                 *)
(***************************************************************************)
RECURSIVE SeqOfSet(_)
\* the ids of a set in ascending order
SeqOfSet(S) ==
    IF S = {} THEN <<>>
    ELSE LET x == CHOOSE y \in S : \A z \in S : y <= z
         IN <<x>> \o SeqOfSet(S \ {x})

RECURSIVE Reverse(_)
Reverse(q) == IF q = <<>> THEN <<>> ELSE Reverse(Tail(q)) \o <<Head(q)>>

RECURSIVE SelectIds(_, _)
SelectIds(q, keep) ==
    IF q = <<>> THEN <<>>
    ELSE (IF keep[Head(q)] THEN <<Head(q)>> ELSE <<>>) \o SelectIds(Tail(q), keep)

Range(q) == {q[i] : i \in 1..Len(q)}

\* NotificationSender.groupNotificationsByUser followed by the two nested
\* loops of sendBulkNotifications: the order in which records are attempted.
\* A Map iterates its keys in first-insertion order.
\* the list handed on as it came, not grouped
inInputOrder(ids, table) == ids

RECURSIVE groupNotificationsByUser(_, _)
groupNotificationsByUser(ids, table) ==
    IF ids = <<>> THEN <<>>
    ELSE LET u == table[Head(ids)].user_id
             same == [n \in Range(ids) |-> table[n].user_id = u]
             other == [n \in Range(ids) |-> table[n].user_id # u]
         IN SelectIds(ids, same) \o groupNotificationsByUser(SelectIds(ids, other), table)

(***************************************************************************)
(* MessageProcessingPipeline.processSingleMessage: control flow.           *)
(***************************************************************************)
AfterAI(cfg) == IF cfg.enableNotifications THEN "notify" ELSE "finish"
AfterFilter(cfg) == IF cfg.enableAIAnalysis THEN "ai" ELSE AfterAI(cfg)
FirstStage(cfg) == IF cfg.enableFiltering THEN "filter" ELSE AfterFilter(cfg)

\* a processBatch that counts a message as processed only when it succeeded
foldStatsOfSuccesses(stats, res) ==
    IF res.success
    THEN [stats EXCEPT
            !.processed = @ + 1,
            !.filtered = IF ~res.filtered THEN @ + 1 ELSE @,
            !.analyzed = IF res.analyzed THEN @ + 1 ELSE @,
            !.notificationsCreated = @ + res.notificationsCreated,
            !.notificationsSent = @ + res.notificationsSent]
    ELSE [stats EXCEPT !.errors = @ + 1]

\* processBatch: the per-message bookkeeping after processSingleMessage returns
foldStats(stats, res) ==
    IF res.success
    THEN [stats EXCEPT
            !.processed = @ + 1,
            !.filtered = IF ~res.filtered THEN @ + 1 ELSE @,
            !.analyzed = IF res.analyzed THEN @ + 1 ELSE @,
            !.notificationsCreated = @ + res.notificationsCreated,
            !.notificationsSent = @ + res.notificationsSent]
    ELSE [stats EXCEPT !.processed = @ + 1, !.errors = @ + 1]

\* processSingleMessage returns res: a single call is over, a batch books the
\* result and waits processingDelay before its next message.
Return(call, res) ==
    IF call.kind = "single"
    THEN [call EXCEPT !.result = res, !.pc = "done"]
    ELSE [call EXCEPT !.result = res, !.pc = "delay",
                      !.stats = foldStats(call.stats, res),
                      !.outcomes = Append(@, res.success),
                      !.passed = Append(@, res.success /\ res.filtered)]

\* Leaving a stage for stage `next` with the result so far.
Advance(call, res, next) ==
    IF next = "finish"
    THEN Return(call, [res EXCEPT !.success = TRUE])
    ELSE [call EXCEPT !.result = res, !.pc = next]

\* processSingleMessage(message) is entered.
Enter(call, m, cfg) ==
    Advance([call EXCEPT !.msg = m, !.attempted = Append(@, m),
                         !.created = <<>>, !.dlist = <<>>,
                         !.delivery = ZeroDelivery, !.last = NoAttempt,
                         !.gap = NoGap],
            ZeroResult, FirstStage(cfg))

\* one more failure of the environment, while the budget lasts
Fail(n) == faults + n <= MaxFaults /\ faults' = faults + n

Cost(failed) == IF failed THEN 1 ELSE 0

NextFree(c) == calls[c].kind = "idle" /\ \A d \in CallIds : d < c => calls[d].kind # "idle"

ProcessedNow == {m \in MsgIds : messages[m].is_processed}

StartSingle(c, m) ==
    /\ NextFree(c)
    /\ calls' = [calls EXCEPT ![c] =
                   Enter([IdleCall EXCEPT !.kind = "single", !.snap = ProcessedNow],
                         m, config)]
    /\ UNCHANGED <<processors, messages, notifications, isProcessing, config, probe, lastIndex, delivered, clock, faults>>

(***************************************************************************)
(* MessageProcessingPipeline.processBatch.                                 *)
(***************************************************************************)
\* the guard `if (this.isProcessing)` at the entry of processBatch
PipelineBusyIgnored(flag) == FALSE
PipelineBusy(flag) == flag

StartBatch(c, S) ==
    /\ NextFree(c)
    /\ LET list == SeqOfSet(S)
           call == [IdleCall EXCEPT !.kind = "batch", !.snap = ProcessedNow,
                                    !.input = list]
       IN IF PipelineBusy(isProcessing)
          THEN /\ calls' = [calls EXCEPT ![c] = [call EXCEPT !.pc = "done", !.refused = TRUE]]
               /\ UNCHANGED isProcessing
          ELSE IF list = <<>>
          THEN /\ calls' = [calls EXCEPT ![c] = [call EXCEPT !.pc = "done"]]
               /\ isProcessing' = FALSE
          ELSE /\ calls' = [calls EXCEPT ![c] =
                              Enter([call EXCEPT !.queue = Tail(list)], Head(list), config)]
               /\ isProcessing' = TRUE
    /\ UNCHANGED <<processors, messages, notifications, config, probe, lastIndex, delivered, clock, faults>>

\* after the inter-message delay: the next message, or the finally block
BatchNext(c) ==
    /\ calls[c].kind = "batch" /\ calls[c].pc = "delay"
    /\ IF calls[c].queue = <<>>
       THEN /\ calls' = [calls EXCEPT ![c].pc = "done"]
            /\ isProcessing' = FALSE
       ELSE /\ calls' = [calls EXCEPT ![c] =
                           Enter([calls[c] EXCEPT !.queue = Tail(@)],
                                 Head(calls[c].queue), config)]
            /\ UNCHANGED isProcessing
    /\ UNCHANGED <<processors, messages, notifications, config, probe, lastIndex, delivered, clock, faults>>

(***************************************************************************)
(* Stage 1: filterContent, then messageDAO.updateFilterStatus.             *)
(***************************************************************************)
updateFilterStatus(table, m, passed) == [table EXCEPT ![m].is_filtered = passed]

\* what processSingleMessage does with the filter verdict: stop or go on
StopWhenBlockedNever(isFiltered) == FALSE
StopWhenBlocked(isFiltered) == isFiltered

FilterStage(c) ==
    /\ calls[c].pc = "filter"
    /\ LET call == calls[c]
           m == call.msg
           fr == filterContent(Content(m), lastIndex)
           res == [call.result EXCEPT !.blocked = fr.isFiltered]
       IN /\ lastIndex' = fr.li
          /\ \E writeOk \in BOOLEAN :
               /\ Fail(Cost(~writeOk))
               /\ IF ~writeOk
                  THEN \* success=false from the DAO, or a rejected promise caught
                       \* by the outer catch: result.error is set either way
                       /\ messages' = messages
                       /\ calls' = [calls EXCEPT ![c] =
                                      Return(call, [res EXCEPT !.error = TRUE,
                                                               !.storeFailed = TRUE])]
                  ELSE /\ messages' = updateFilterStatus(messages, m, ~fr.isFiltered)
                       /\ LET res2 == [res EXCEPT !.filtered = ~fr.isFiltered,
                                       !.filterWrite = IF fr.isFiltered THEN "false" ELSE "true"]
                          IN calls' = [calls EXCEPT ![c] =
                               IF StopWhenBlocked(fr.isFiltered)
                               THEN Return(call, [res2 EXCEPT !.success = TRUE])
                               ELSE Advance(call, res2, AfterFilter(config))]
    /\ UNCHANGED <<processors, notifications, isProcessing, config, probe, delivered, clock>>

(***************************************************************************)
(* Stage 2: AIProcessorService.processSingleMessage.                       *)
(***************************************************************************)
MinContentLength == 10
ShortMessageScore == 10

\* Outcomes of aiService.analyzeContent: no service at all, a failed call, or
\* a response (importance score and category).
AIOutcomes ==
    { [kind |-> "unavailable", score |-> 0, category |-> "none"],
      [kind |-> "error", score |-> 0, category |-> "none"],
      [kind |-> "response", score |-> 100, category |-> "breaking_news"],
      [kind |-> "response", score |-> 30, category |-> "other"] }

\* messageDAO.update(messageId, data): one UPDATE statement
update(table, m, data) ==
    [table EXCEPT ![m] = [@ EXCEPT !.is_processed = data.is_processed,
                                   !.importance_score = data.importance_score,
                                   !.category = data.category]]

NoUpdate == [is_processed |-> FALSE, importance_score |-> 0, category |-> "null"]

\* a processSingleMessage with enableFallback off: the error of
\* aiService.analyzeContent is rethrown, nothing is written
processSingleMessageNoFallback(c, alreadyProcessed, ai, dbOk, now) ==
    IF alreadyProcessed
    THEN [success |-> TRUE, writes |-> FALSE, data |-> NoUpdate, assessed |-> FALSE,
          externalCalls |-> 0]
    ELSE IF c.len < MinContentLength
    THEN [success |-> TRUE, writes |-> TRUE, assessed |-> FALSE, externalCalls |-> 0,
          data |-> [is_processed |-> TRUE, importance_score |-> ShortMessageScore,
                    category |-> "short_message"]]
    ELSE IF ai.kind = "error"
    THEN [success |-> FALSE, writes |-> FALSE, data |-> NoUpdate, assessed |-> TRUE,
          externalCalls |-> 1]
    ELSE LET answered == ai.kind = "response"
             aiScore == IF answered THEN ai.score ELSE getFallbackAnalysis(c)
             category == IF answered THEN ai.category ELSE "fallback_other"
         IN [success |-> dbOk, writes |-> TRUE, assessed |-> ai.kind # "unavailable",
             externalCalls |-> IF ai.kind = "unavailable" THEN 0 ELSE 1,
             data |-> [is_processed |-> TRUE,
                       importance_score |-> calculateScore(c, aiScore, now),
                       category |-> category]]

\* The result of processSingleMessage and what it did: `writes` is whether
\* messageDAO.update is called (with `data`), `assessed` whether the external
\* assessment service was called, `externalCalls` how many times.
processSingleMessageAI(c, alreadyProcessed, ai, dbOk, now) ==
    IF alreadyProcessed
    THEN [success |-> TRUE, writes |-> FALSE, data |-> NoUpdate, assessed |-> FALSE,
          externalCalls |-> 0]
    ELSE IF c.len < MinContentLength
    THEN [success |-> TRUE, writes |-> TRUE, assessed |-> FALSE, externalCalls |-> 0,
          data |-> [is_processed |-> TRUE, importance_score |-> ShortMessageScore,
                    category |-> "short_message"]]
    ELSE LET answered == ai.kind = "response"
             aiScore == IF answered THEN ai.score ELSE getFallbackAnalysis(c)
             category == IF answered THEN ai.category ELSE "fallback_other"
         IN [success |-> dbOk, writes |-> TRUE, assessed |-> ai.kind # "unavailable",
             externalCalls |-> IF ai.kind = "unavailable" THEN 0 ELSE 1,
             data |-> [is_processed |-> TRUE,
                       importance_score |-> calculateScore(c, aiScore, now),
                       category |-> category]]

\* AIProcessorService.processSingleMessage called for the message of call c,
\* with the answer of the assessment service and of the store
Assess(c, ai, dbOk) ==
    /\ calls[c].pc = "ai"
    /\   LET call == calls[c]
             m == call.msg
             r == processSingleMessageAI(Content(m), m \in call.snap, ai, dbOk, clock)
             wrote == r.writes /\ dbOk
             res == [call.result EXCEPT
                       !.analyzed = r.success,
                       !.assessed = r.assessed,
                       !.externalCalls = r.externalCalls,
                       !.processedWrites = IF wrote THEN @ + 1 ELSE @,
                       !.storeFailed = @ \/ (r.writes /\ ~dbOk)]
         IN /\ Fail(Cost(r.assessed /\ ai.kind = "error") + Cost(~dbOk))
            /\ (~r.writes => dbOk)
            /\ (~r.assessed => ai.kind = "unavailable")
            /\ messages' = IF wrote THEN update(messages, m, r.data) ELSE messages
            /\ calls' = [calls EXCEPT ![c] = Advance(call, res, AfterAI(config))]
    /\ UNCHANGED <<processors, notifications, isProcessing, config, probe, lastIndex, delivered, clock>>

AIStage(c) == \E ai \in AIOutcomes, dbOk \in BOOLEAN : Assess(c, ai, dbOk)

(***************************************************************************)
(* Stage 3: messageDAO.getById, then                                       *)
(* NotificationService.processMessageForNotifications.                     *)
(***************************************************************************)
\* Outcomes of the detector's own assessment call (-1: no service / failed).
DetectorAI == {-1, 100}

\* a user loop that does not skip inactive users
eligibleUsersAll(users, analysis, now) ==
    IF ~analysis.is_critical THEN <<>>
    ELSE SelectIds(SeqOfSet(DOMAIN users),
                   [u \in DOMAIN users |-> shouldNotifyUser(users[u], analysis, now)])

\* processMessageForNotifications after the analysis: nobody when the result
\* is not critical, else the users of getAllUsers, in its order, that are
\* active and that shouldNotifyUser accepts
eligibleUsers(users, analysis, now) ==
    IF ~analysis.is_critical THEN <<>>
    ELSE SelectIds(SeqOfSet(DOMAIN users),
                   [u \in DOMAIN users |->
                      users[u].is_active /\ shouldNotifyUser(users[u], analysis, now)])

\* the recipients a record is created for, in the order of the user loop
recipients(m, row, detAI, usersOk, now) ==
    IF ~usersOk THEN <<>>
    ELSE eligibleUsers([u \in UserIds |-> User(u)], analyze(Content(m), row, detAI), now)

\* notificationDAO.create: INSERT ... RETURNING *
NewNotification(u, m) ==
    [user_id |-> u, message_id |-> m, notification_type |-> "immediate",
     is_sent |-> FALSE, sent_at |-> "null"]

NoDelivery == [handed |-> 0, accepted |-> 0, afterSent |-> FALSE]

NotifyStage(c) ==
    /\ calls[c].pc = "notify"
    /\ \E readOk \in BOOLEAN, usersOk \in BOOLEAN, detAI \in DetectorAI,
          failing \in SUBSET UserIds :
         LET call == calls[c]
             m == call.msg
             wanted == IF readOk THEN recipients(m, messages[m], detAI, usersOk, clock)
                       ELSE <<>>
             made == SelectIds(wanted, [u \in UserIds |-> u \notin failing])
             rows == [i \in 1..Len(made) |-> NewNotification(made[i], m)]
             ids == [i \in 1..Len(made) |-> Len(notifications) + i]
             res == [call.result EXCEPT
                       !.notificationsCreated = Len(made),
                       !.storeFailed = @ \/ ~readOk \/ ~usersOk \/ Len(made) # Len(wanted)]
             autoSend == config.enableAutoSending /\ config.hasSender /\ Len(made) > 0
         IN /\ failing \subseteq Range(wanted)
            /\ Fail(Cost(~readOk) + Cost(~usersOk) + Cardinality(failing))
            /\ (~readOk => usersOk /\ detAI = -1)
            /\ notifications' = notifications \o rows
            /\ delivered' = delivered \o [i \in 1..Len(made) |-> NoDelivery]
            /\ calls' = [calls EXCEPT ![c] =
                 IF autoSend
                 THEN [call EXCEPT !.result = res, !.pc = "send", !.created = ids,
                                   !.dlist = groupNotificationsByUser(ids, notifications'),
                                   !.delivery = [ZeroDelivery EXCEPT !.total = Len(ids)]]
                 ELSE Advance([call EXCEPT !.created = ids], res, "finish")]
    /\ UNCHANGED <<processors, messages, isProcessing, config, probe, lastIndex, clock>>

(***************************************************************************)
(* NotificationSender: sendNotification / sendBulkNotifications.           *)
(***************************************************************************)
\* What can happen to one record: userService.getUserById fails or rejects,
\* the bot is not ready, isChatAccessible is false, the channel rejects the
\* message, the channel accepts it and markAsSent succeeds, or the channel
\* accepts it and markAsSent returns success=false.  Every failure carries a
\* text: a literal of NotificationSender or TelegramBot, or the message of the
\* Error the store or the Telegram client raised.
SendOutcomes == {"user_not_found", "notifications_disabled", "bot_unavailable",
                 "chat_not_accessible", "rejected", "sent", "sent_mark_failed"}

\* a sendViaTelegram that sends without asking isChatAccessible
sendNotificationUnprobed(user, outcome) ==
    IF outcome = "user_not_found"
    THEN [success |-> FALSE, hasError |-> TRUE, error |-> "User not found",
          handed |-> FALSE, accepted |-> FALSE, marks |-> FALSE]
    ELSE IF outcome = "notifications_disabled" \/ ~user.notifications
    THEN [success |-> FALSE, hasError |-> TRUE,
          error |-> "Notifications disabled for user",
          handed |-> FALSE, accepted |-> FALSE, marks |-> FALSE]
    ELSE IF outcome = "bot_unavailable"
    THEN [success |-> FALSE, hasError |-> TRUE, error |-> "Telegram Bot not available",
          handed |-> FALSE, accepted |-> FALSE, marks |-> FALSE]
    ELSE IF outcome \in {"rejected", "chat_not_accessible"}
    THEN [success |-> FALSE, hasError |-> TRUE, error |-> "sendResult.error",
          handed |-> TRUE, accepted |-> FALSE, marks |-> FALSE]
    ELSE [success |-> TRUE, hasError |-> FALSE, error |-> "undefined",
          handed |-> TRUE, accepted |-> TRUE, marks |-> outcome = "sent"]

\* a sendNotification that does not read user.preferences.notifications
sendNotificationUnchecked(user, outcome) ==
    IF outcome = "user_not_found"
    THEN [success |-> FALSE, hasError |-> TRUE, error |-> "User not found",
          handed |-> FALSE, accepted |-> FALSE, marks |-> FALSE]
    ELSE IF outcome = "bot_unavailable"
    THEN [success |-> FALSE, hasError |-> TRUE, error |-> "Telegram Bot not available",
          handed |-> FALSE, accepted |-> FALSE, marks |-> FALSE]
    ELSE IF outcome = "chat_not_accessible"
    THEN [success |-> FALSE, hasError |-> TRUE, error |-> "Chat not accessible",
          handed |-> FALSE, accepted |-> FALSE, marks |-> FALSE]
    ELSE IF outcome = "rejected"
    THEN [success |-> FALSE, hasError |-> TRUE, error |-> "sendResult.error",
          handed |-> TRUE, accepted |-> FALSE, marks |-> FALSE]
    ELSE [success |-> TRUE, hasError |-> FALSE, error |-> "undefined",
          handed |-> TRUE, accepted |-> TRUE, marks |-> outcome # "sent_mark_failed"]

\* sendNotification(notification): success and error are the result's fields,
\* hasError whether result.error is a non-empty string, handed whether
\* telegramBot.sendNotification was called, marks whether the UPDATE of
\* markAsSent took effect.  The outcome is what the environment answers:
\* getUserById finds no user, finds one with preferences.notifications off,
\* the bot is not ready, isChatAccessible is false, the bot's send fails or
\* succeeds.
sendNotification(user, outcome) ==
    IF outcome = "user_not_found"
    THEN [success |-> FALSE, hasError |-> TRUE, error |-> "User not found",
          handed |-> FALSE, accepted |-> FALSE, marks |-> FALSE]
    ELSE IF outcome = "notifications_disabled" \/ ~user.notifications
    THEN [success |-> FALSE, hasError |-> TRUE,
          error |-> "Notifications disabled for user",
          handed |-> FALSE, accepted |-> FALSE, marks |-> FALSE]
    ELSE IF outcome = "bot_unavailable"
    THEN [success |-> FALSE, hasError |-> TRUE, error |-> "Telegram Bot not available",
          handed |-> FALSE, accepted |-> FALSE, marks |-> FALSE]
    ELSE IF outcome = "chat_not_accessible"
    THEN [success |-> FALSE, hasError |-> TRUE, error |-> "Chat not accessible",
          handed |-> FALSE, accepted |-> FALSE, marks |-> FALSE]
    ELSE IF outcome = "rejected"
    THEN [success |-> FALSE, hasError |-> TRUE, error |-> "sendResult.error",
          handed |-> TRUE, accepted |-> FALSE, marks |-> FALSE]
    ELSE [success |-> TRUE, hasError |-> FALSE, error |-> "undefined",
          handed |-> TRUE, accepted |-> TRUE, marks |-> outcome = "sent"]

\* notificationDAO.markAsSent
markAsSent(table, n) == [table EXCEPT ![n].is_sent = TRUE, ![n].sent_at = "now"]

PerUserDelay == 200
GlobalDelay == 100

\* a sendBulkNotifications that sleeps only after a successful send
delayAfterSuccess(groupSize, lastOfUser, r) ==
    IF r.success
    THEN (IF groupSize > 1 THEN PerUserDelay ELSE 0)
         + (IF lastOfUser THEN GlobalDelay ELSE 0)
    ELSE 0

\* sendBulkNotifications: the delays awaited after one sendNotification
\* before the next: delay(200) when the recipient's group has more than one
\* record, then delay(100) when the group is finished
delayAfter(groupSize, lastOfUser, r) ==
    (IF groupSize > 1 THEN PerUserDelay ELSE 0)
    + (IF lastOfUser THEN GlobalDelay ELSE 0)

\* a sendBulkNotifications that keeps no error strings
recordWithoutErrors(delivery, n, u, r) ==
    [delivery EXCEPT
       !.results = Append(@, [notification_id |-> n, user_id |-> u, success |-> r.success,
                              error |-> r.error]),
       !.successful = IF r.success THEN @ + 1 ELSE @,
       !.failed = IF r.success THEN @ ELSE @ + 1]

\* sendBulkNotifications: one record's result added to results / errors;
\* an error string is `User ${userId}: ${result.error}`, kept here as userId
record(delivery, n, u, r) ==
    [delivery EXCEPT
       !.results = Append(@, [notification_id |-> n, user_id |-> u, success |-> r.success,
                              error |-> r.error]),
       !.errors = IF ~r.success /\ r.hasError THEN Append(@, u) ELSE @,
       !.successful = IF r.success THEN @ + 1 ELSE @,
       !.failed = IF r.success THEN @ ELSE @ + 1]

\* one pass of the inner loop of sendBulkNotifications: sendNotification of
\* the next record with the given answer of the environment, its result
\* recorded, the delays awaited
Deliver(c, outcome) ==
    /\ calls[c].pc = "send"
    /\   LET call == calls[c]
             n == Head(call.dlist)
             u == notifications[n].user_id
             r == sendNotification(User(u), outcome)
             d == record(call.delivery, n, u, r)
             rest == Tail(call.dlist)
             groupSize ==
                 Cardinality({i \in DOMAIN call.delivery.results :
                                call.delivery.results[i].user_id = u})
                 + Cardinality({i \in DOMAIN call.dlist :
                                  notifications[call.dlist[i]].user_id = u})
             lastOfUser == \A i \in DOMAIN rest : notifications[rest[i]].user_id # u
             gap == [from |-> call.last.user, to |-> u, ms |-> call.last.waited,
                     fromFailed |-> call.last.failed]
             last == [user |-> u, failed |-> ~r.success,
                      waited |-> delayAfter(groupSize, lastOfUser, r)]
         IN /\ Fail(Cost(outcome # "sent"))
            /\ notifications' = IF r.marks THEN markAsSent(notifications, n)
                                ELSE notifications
            /\ delivered' = [delivered EXCEPT ![n] =
                   [handed |-> IF r.handed THEN @.handed + 1 ELSE @.handed,
                    accepted |-> IF r.accepted THEN @.accepted + 1 ELSE @.accepted,
                    afterSent |-> @.afterSent \/ (r.handed /\ notifications[n].is_sent)]]
            /\ calls' = [calls EXCEPT ![c] =
                 IF rest # <<>>
                 THEN [call EXCEPT !.dlist = rest, !.delivery = d,
                                   !.last = last, !.gap = gap]
                 ELSE IF call.kind \in {"sendBulk", "sendAll"}
                 THEN [call EXCEPT !.dlist = rest, !.delivery = d, !.pc = "done",
                                   !.last = last, !.gap = gap]
                 ELSE Advance([call EXCEPT !.dlist = rest, !.delivery = d,
                                           !.last = last, !.gap = gap],
                              [call.result EXCEPT !.notificationsSent = d.successful],
                              "finish")]
    /\ UNCHANGED <<processors, messages, isProcessing, config, probe, lastIndex, clock>>

SendNext(c) == \E outcome \in SendOutcomes : Deliver(c, outcome)

\* sendBulkNotifications(notifications) called with records the caller holds
StartSendBulk(c, S) ==
    /\ NextFree(c)
    /\ S # {} /\ S \subseteq 1..Len(notifications)
    /\ config.hasSender
    /\ calls' = [calls EXCEPT ![c] =
            [IdleCall EXCEPT !.kind = "sendBulk", !.pc = "send",
                             !.input = SeqOfSet(S),
                             !.dlist = groupNotificationsByUser(SeqOfSet(S), notifications),
                             !.delivery = [ZeroDelivery EXCEPT !.total = Cardinality(S)]]]
    /\ UNCHANGED <<processors, messages, notifications, isProcessing, config, probe, lastIndex, delivered,
                   clock, faults>>

\* sendAllPendingNotifications: notificationDAO.getAll({is_sent: false}),
\* newest first, then sendBulkNotifications
\* NotificationDAO.getAll(filters) with its default pagination {page: 1,
\* limit: 50}: the newest DefaultLimit rows that match
DefaultLimit == 50

getAll(table, isSent) ==
    LET rows == Reverse(SeqOfSet({n \in 1..Len(table) : table[n].is_sent = isSent}))
    IN SubSeq(rows, 1, Min(DefaultLimit, Len(rows)))

StartSendAll(c) ==
    /\ NextFree(c)
    /\ \E readOk \in BOOLEAN :
         LET unsent == {n \in 1..Len(notifications) : ~notifications[n].is_sent}
             items == IF readOk /\ config.hasSender THEN getAll(notifications, FALSE)
                      ELSE <<>>
             call == [IdleCall EXCEPT !.kind = "sendAll", !.unsent = unsent]
         IN /\ calls' = [calls EXCEPT ![c] =
              IF items = <<>>
              THEN [call EXCEPT !.pc = "done"]
              ELSE [call EXCEPT !.pc = "send", !.input = items,
                                !.dlist = groupNotificationsByUser(items, notifications),
                                !.delivery = [ZeroDelivery EXCEPT !.total = Len(items)]]]
            /\ Fail(Cost(~readOk))
    /\ UNCHANGED <<processors, messages, notifications, isProcessing, config, probe, lastIndex, delivered, clock>>

\* time passes
Tick ==
    /\ \E now \in Clock : now > clock /\ clock' = now
    /\ UNCHANGED <<processors, messages, notifications, isProcessing, config, probe, lastIndex, calls,
                   delivered, faults>>

(***************************************************************************)
(* The system.                                                             *)
(***************************************************************************)
Next ==
    \/ \E c \in CallIds, m \in MsgIds : StartSingle(c, m)
    \/ \E c \in CallIds, S \in SUBSET MsgIds : StartBatch(c, S)
    \/ \E c \in CallIds : BatchNext(c)
    \/ \E c \in CallIds : FilterStage(c)
    \/ \E c \in CallIds : AIStage(c)
    \/ \E c \in CallIds : NotifyStage(c)
    \/ \E c \in CallIds : SendNext(c)
    \/ \E c \in CallIds : StartSendAll(c)
    \/ \E c \in CallIds, S \in SUBSET (1..Len(notifications)) : StartSendBulk(c, S)
    \/ Tick

Spec == Init /\ [][Next]_vars

\* The same entry points called one after the other: a call starts only when
\* every earlier call has returned.
NoCallInFlight == \A c \in CallIds : calls[c].pc \in {"idle", "done"}

NextSeq ==
    \/ NoCallInFlight /\ \E c \in CallIds, m \in MsgIds : StartSingle(c, m)
    \/ NoCallInFlight /\ \E c \in CallIds, S \in SUBSET MsgIds : StartBatch(c, S)
    \/ \E c \in CallIds : BatchNext(c)
    \/ \E c \in CallIds : FilterStage(c)
    \/ \E c \in CallIds : AIStage(c)
    \/ \E c \in CallIds : NotifyStage(c)
    \/ \E c \in CallIds : SendNext(c)
    \/ NoCallInFlight /\ \E c \in CallIds : StartSendAll(c)
    \/ NoCallInFlight /\ \E c \in CallIds, S \in SUBSET (1..Len(notifications)) :
                            StartSendBulk(c, S)
    \/ Tick

SpecSeq == Init /\ [][NextSeq]_vars

(***************************************************************************)
(* CriticalNewsDetector.analyze called directly on a message: content of   *)
(* the catalogue, or null, or a value that is no string; any stored        *)
(* importance score and category.                                          *)
(***************************************************************************)
NullContent ==
    [NoText(DotsText) EXCEPT !.kind = "null", !.len = 0, !.trimLen = 0,
                             !.lowQ = "none"]
ObjectContent == [BreakingText EXCEPT !.kind = "object"]

DetectorContents ==
    {BreakingText, DotsText, AdText, QuakeText, NullContent, ObjectContent}

StoredScores == {0, 50, 85, 90, 100}
StoredCategories == {"null", "other", "breaking_news"}

AnalyzeProbe ==
    /\ probe.op = "none"
    /\ \E c \in DetectorContents, score \in StoredScores,
          category \in StoredCategories, detAI \in DetectorAI :
         LET msg == [NewMessage EXCEPT !.importance_score = score,
                                       !.category = category]
         IN probe' = [op |-> "analyze", done |-> TRUE, content |-> c, msg |-> msg,
                      detAI |-> detAI, result |-> analyze(c, msg, detAI)]
    /\ UNCHANGED <<processors, messages, notifications, isProcessing, config, lastIndex, calls,
                   delivered, clock, faults>>

NextDetector == AnalyzeProbe \/ Tick

SpecDetector == Init /\ [][NextDetector]_vars

(***************************************************************************)
(* CriticalNewsDetector.updateConfig(partial) any number of times, then    *)
(* analyze(message).  The probe carries the detector's configuration.      *)
(***************************************************************************)
DetectorThresholds == {50, 80, 90}

\* Partial<CriticalNewsConfig>: any of the thresholds, each with a number
PartialDetectorConfigs ==
    UNION {[keys -> DetectorThresholds] : keys \in SUBSET DOMAIN DefaultDetectorConfig}

\* this.config = { ...this.config, ...config }
updateConfig(cfg, partial) ==
    [k \in DOMAIN cfg |-> IF k \in DOMAIN partial THEN partial[k] ELSE cfg[k]]

DetectorConfigNow ==
    IF probe.op = "updateConfig" THEN probe.config ELSE DefaultDetectorConfig

UpdateConfigProbe ==
    /\ probe.op \in {"none", "updateConfig"}
    /\ \E partial \in PartialDetectorConfigs :
         probe' = [op |-> "updateConfig", done |-> FALSE,
                   config |-> updateConfig(DetectorConfigNow, partial)]
    /\ UNCHANGED <<processors, messages, notifications, isProcessing, config, lastIndex,
                   calls, delivered, clock, faults>>

AnalyzeConfiguredProbe ==
    /\ probe.op \in {"none", "updateConfig"}
    /\ \E c \in DetectorContents, score \in StoredScores,
          category \in StoredCategories, detAI \in DetectorAI :
         LET msg == [NewMessage EXCEPT !.importance_score = score,
                                       !.category = category]
         IN probe' = [op |-> "analyzeConfigured", done |-> TRUE,
                      config |-> DetectorConfigNow, content |-> c, msg |-> msg,
                      detAI |-> detAI,
                      result |-> analyzeConfigured(DetectorConfigNow, c, msg, detAI)]
    /\ UNCHANGED <<processors, messages, notifications, isProcessing, config, lastIndex,
                   calls, delivered, clock, faults>>

NextConfigured == UpdateConfigProbe \/ AnalyzeConfiguredProbe

SpecConfigured == Init /\ [][NextConfigured]_vars

(***************************************************************************)
(* ContentFilterService.filterContent called directly, any number of       *)
(* times, on one filter instance.  The probe keeps the decision each input *)
(* got the first time it was submitted, and the latest call.               *)
(***************************************************************************)
SepText ==  \* "---"
    [DotsText EXCEPT !.lowQ = "sep"]
EmptyText ==  \* "   "
    [DotsText EXCEPT !.trimLen = 0, !.lowQ = "none"]

FilterTexts == <<DotsText, SepText, EmptyText, BreakingText>>
MediaKinds == {"text", "photo"}
FilterInputs == (DOMAIN FilterTexts) \X MediaKinds

FilterProbe ==
    /\ probe.op \in {"none", "filter"}
    /\ \E inp \in FilterInputs :
         LET c == [FilterTexts[inp[1]] EXCEPT !.media = inp[2]]
             r == filterContent(c, lastIndex)
             first == IF probe.op = "none"
                      THEN [x \in FilterInputs |-> "none"]
                      ELSE probe.first
             decision == IF r.isFiltered THEN "blocked" ELSE "allowed"
         IN /\ lastIndex' = r.li
            /\ probe' = [op |-> "filter", done |-> TRUE, input |-> inp,
                         isFiltered |-> r.isFiltered,
                         before |-> first[inp],
                         first |-> IF first[inp] = "none"
                                   THEN [first EXCEPT ![inp] = decision]
                                   ELSE first]
    /\ UNCHANGED <<processors, messages, notifications, isProcessing, config, calls, delivered,
                   clock, faults>>

NextFilter == FilterProbe \/ Tick

SpecFilter == Init /\ [][NextFilter]_vars

(***************************************************************************)
(* NotificationService.shouldNotifyUser called directly: any recipient     *)
(* preferences, any criticality result, any time of day.                   *)
(***************************************************************************)
QuietHours ==
    { NoQuietHours,
      [set |-> TRUE, start |-> <<22, 0>>, end |-> <<8, 0>>],
      [set |-> TRUE, start |-> <<13, 0>>, end |-> <<14, 30>>],
      [set |-> TRUE, start |-> <<12, 0>>, end |-> <<12, 0>>] }
Thresholds == {50, 95}
Recipients ==
    [is_active : {TRUE}, notifications : BOOLEAN,
     importance_threshold : Thresholds, quiet_hours : QuietHours]
Analyses == [is_critical : BOOLEAN, criticality_score : {49, 85, 89, 90, 100}]
\* 00:00 03:30 08:00 08:01 12:00 13:00 14:31 21:59 22:00 23:59
TimesOfDay == {0, 210, 480, 481, 720, 780, 871, 1319, 1320, 1439}

EligibilityProbe ==
    /\ probe.op = "none"
    /\ \E user \in Recipients, analysis \in Analyses, now \in TimesOfDay :
         probe' = [op |-> "shouldNotifyUser", done |-> TRUE, user |-> user,
                   analysis |-> analysis, now |-> now,
                   shouldNotify |-> shouldNotifyUser(user, analysis, now)]
    /\ UNCHANGED <<processors, messages, notifications, isProcessing, config, lastIndex, calls,
                   delivered, clock, faults>>

NextEligibility == EligibilityProbe \/ Tick

SpecEligibility == Init /\ [][NextEligibility]_vars

(***************************************************************************)
(* NotificationService.processMessageForNotifications called directly on   *)
(* a stored message, with any two users in the users table.                *)
(***************************************************************************)
TableUsers ==
    [is_active : BOOLEAN, notifications : BOOLEAN, importance_threshold : Thresholds,
     quiet_hours : {NoQuietHours, [set |-> TRUE, start |-> <<22, 0>>, end |-> <<8, 0>>]}]

NotifyProbe ==
    /\ probe.op = "none"
    /\ \E users \in [UserIds -> TableUsers], m \in MsgIds, score \in StoredScores,
          detAI \in DetectorAI, failing \in SUBSET UserIds :
         LET msg == [NewMessage EXCEPT !.importance_score = score,
                                       !.category = "breaking_news"]
             analysis == analyze(Content(m), msg, detAI)
             wanted == eligibleUsers(users, analysis, clock)
             made == SelectIds(wanted, [u \in UserIds |-> u \notin failing])
         IN /\ failing \subseteq Range(wanted)
            /\ probe' = [op |-> "processMessageForNotifications", done |-> TRUE,
                         users |-> users, message_id |-> m, analysis |-> analysis,
                         now |-> clock,
                         data |-> [i \in 1..Len(made) |-> NewNotification(made[i], m)]]
    /\ UNCHANGED <<processors, messages, notifications, isProcessing, config, lastIndex, calls,
                   delivered, clock, faults>>

NextNotify == NotifyProbe \/ Tick

SpecNotify == Init /\ [][NextNotify]_vars

(***************************************************************************)
(* The notifications table under the Dispatcher's calls and                *)
(* NotificationDAO.update(id, data), the store's general write to a        *)
(* record.  It starts with the records a pipeline run without automatic    *)
(* sending has left for message 1.                                         *)
(***************************************************************************)
InitStore ==
    /\ messages = [m \in MsgIds |->
                     IF m = 1
                     THEN [is_filtered |-> TRUE, is_processed |-> TRUE,
                           importance_score |-> calculateScore(Content(1), 100, 210),
                           category |-> "breaking_news"]
                     ELSE NewMessage]
    /\ notifications = [u \in UserIds |-> NewNotification(u, 1)]
    /\ isProcessing = FALSE
    /\ config = [DefaultConfig EXCEPT !.enableAutoSending = FALSE]
    /\ lastIndex = [dots |-> 0, sep |-> 0]
    /\ calls = [c \in CallIds |-> IdleCall]
    /\ delivered = [u \in UserIds |-> NoDelivery]
    /\ clock = 210
    /\ faults = 0
    /\ probe = NoProbe
    /\ processors = NoProcessors

\* UpdateNotificationData: each field a value or undefined
UpdateNotificationData ==
    [is_sent : {"undefined", "true", "false"}, sent_at : {"undefined", "null", "now"}]

notificationUpdate(table, n, data) ==
    [table EXCEPT
       ![n].is_sent = IF data.is_sent = "undefined" THEN @ ELSE data.is_sent = "true",
       ![n].sent_at = IF data.sent_at = "undefined" THEN @ ELSE data.sent_at]

NotificationDAOUpdate(n, data) ==
    /\ n \in 1..Len(notifications)
    /\ ~(data.is_sent = "undefined" /\ data.sent_at = "undefined")
    /\ notifications' = notificationUpdate(notifications, n, data)
    /\ UNCHANGED <<processors, messages, isProcessing, config, probe, lastIndex, calls, delivered,
                   clock, faults>>

NextStore ==
    \/ \E c \in CallIds : SendNext(c)
    \/ \E c \in CallIds : StartSendAll(c)
    \/ \E c \in CallIds, S \in SUBSET (1..Len(notifications)) : StartSendBulk(c, S)
    \/ \E n \in 1..Len(notifications), data \in UpdateNotificationData :
          NotificationDAOUpdate(n, data)

SpecStore == InitStore /\ [][NextStore]_vars

(***************************************************************************)
(* The Dispatcher alone, over the records two pipeline runs on message 1   *)
(* without automatic sending have left: two for each recipient.            *)
(***************************************************************************)
InitBulk ==
    /\ messages = [m \in MsgIds |->
                     IF m = 1
                     THEN [is_filtered |-> TRUE, is_processed |-> TRUE,
                           importance_score |-> calculateScore(Content(1), 100, 210),
                           category |-> "breaking_news"]
                     ELSE NewMessage]
    /\ notifications = [n \in 1..(2 * NumUsers) |->
                          NewNotification(((n - 1) % NumUsers) + 1, 1)]
    /\ isProcessing = FALSE
    /\ config = [DefaultConfig EXCEPT !.enableAutoSending = FALSE]
    /\ lastIndex = [dots |-> 0, sep |-> 0]
    /\ calls = [c \in CallIds |-> IdleCall]
    /\ delivered = [n \in 1..(2 * NumUsers) |-> NoDelivery]
    /\ clock = 210
    /\ faults = 0
    /\ probe = NoProbe
    /\ processors = NoProcessors

NextBulk ==
    \/ \E c \in CallIds : SendNext(c)
    \/ \E c \in CallIds : StartSendAll(c)
    \/ \E c \in CallIds, S \in SUBSET (1..Len(notifications)) : StartSendBulk(c, S)

SpecBulk == InitBulk /\ [][NextBulk]_vars

(***************************************************************************)
(* The stand-alone batch processors: AIProcessorService                    *)
(* .processAllUnprocessedMessages and FilterProcessorService               *)
(* .processAllUnfilteredMessages.  Each fetches the messages page by page  *)
(* and handles the rows of a page one at a time; a fetch and the handling  *)
(* of one row are one step each.                                           *)
(***************************************************************************)
BatchSizes == {1, 2}
MaxPages == 3

ZeroFilterStats == [processed |-> 0, filtered |-> 0, allowed |-> 0, errors |-> 0]

Matching(table, filters) ==
    {m \in MsgIds : /\ table[m].is_filtered = filters.is_filtered
                    /\ table[m].is_processed = filters.is_processed}

\* messageDAO.getFiltered(filters, {limit, offset}): the rows that match now,
\* in a fixed order, after skipping `offset` of them, at most `limit`
getFiltered(table, filters, limit, offset) ==
    LET rows == SeqOfSet(Matching(table, filters))
    IN SubSeq(rows, offset + 1, Min(offset + limit, Len(rows)))

\* messageDAO.getUnfilteredMessages(limit): the rows without the pass mark
getUnfilteredMessages(table, limit) ==
    LET rows == SeqOfSet({m \in MsgIds : ~table[m].is_filtered})
    IN SubSeq(rows, 1, Min(limit, Len(rows)))

\* the guards at the entry of the two methods: what a call gets when the
\* flag is set
aiBusyAnswer == "stats"
filterBusyAnswer == "throw"

\* the finally block of the two methods: this.isProcessing = false
stillHeld(p, service) == p
released(p, service) == [p EXCEPT ![service] = FALSE]

Refuse(call, answer) ==
    [call EXCEPT !.pc = "done", !.refused = TRUE, !.run.outcome = answer]

\* AIProcessorService.processAllUnprocessedMessages: guard, flag, locals
StartAI(c) ==
    /\ NextFree(c)
    /\ LET call == [IdleCall EXCEPT !.kind = "ai"]
       IN IF processors.ai
          THEN /\ calls' = [calls EXCEPT ![c] = Refuse(call, aiBusyAnswer)]
               /\ UNCHANGED processors
          ELSE /\ calls' = [calls EXCEPT ![c] =
                              [call EXCEPT
                                 !.pc = "fetch",
                                 !.run.batchSize = processors.batchSize,
                                 !.run.hasMore = TRUE,
                                 !.run.pending =
                                     Matching(messages, [is_filtered |-> TRUE,
                                                         is_processed |-> FALSE])]]
               /\ processors' = [processors EXCEPT !.ai = TRUE]
    /\ UNCHANGED <<messages, notifications, isProcessing, config, probe, lastIndex,
                   delivered, clock, faults>>

\* one turn of the while loop up to processBatch: the page at the current
\* offset; an empty page ends the loop, a rejected query lands in the catch
\* block (errors: 1); both pass through finally
FetchAI(c, ok) ==
    /\ calls[c].kind = "ai" /\ calls[c].pc = "fetch"
    /\ Fail(Cost(~ok))
    /\ LET call == calls[c]
           run == call.run
           data == getFiltered(messages, [is_filtered |-> TRUE, is_processed |-> FALSE],
                               processors.batchSize, run.offset)
       IN IF ~ok
          THEN /\ calls' = [calls EXCEPT ![c] =
                              [call EXCEPT !.pc = "done", !.run.outcome = "stats",
                                           !.run.stats = [getEmptyStats EXCEPT !.errors = 1]]]
               /\ processors' = released(processors, "ai")
          ELSE IF data = <<>>
          THEN /\ calls' = [calls EXCEPT ![c] =
                              [call EXCEPT !.pc = "done", !.run.outcome = "stats",
                                           !.run.hasMore = FALSE]]
               /\ processors' = released(processors, "ai")
          ELSE /\ calls' = [calls EXCEPT ![c] =
                              [call EXCEPT !.pc = "page", !.run.page = data,
                                           !.run.pages = @ + 1]]
               /\ UNCHANGED processors
    /\ UNCHANGED <<messages, notifications, isProcessing, config, probe, lastIndex,
                   delivered, clock>>

\* AIProcessorService.processBatch, one row: processSingleMessage on the
\* fetched row (is_processed = false in it), the counters; after the last row
\* of the page the totals are summed and offset += batchSize
ProcessAI(c, ai, dbOk) ==
    /\ calls[c].kind = "ai" /\ calls[c].pc = "page"
    /\ LET call == calls[c]
           run == call.run
           m == Head(run.page)
           r == processSingleMessageAI(Content(m), FALSE, ai, dbOk, clock)
           wrote == r.writes /\ dbOk
           stats == [run.stats EXCEPT
                       !.processed = @ + 1,
                       !.successful = IF r.success THEN @ + 1 ELSE @,
                       !.failed = IF r.success THEN @ ELSE @ + 1]
           last == Tail(run.page) = <<>>
       IN /\ Fail(Cost(r.assessed /\ ai.kind = "error") + Cost(~dbOk))
          /\ (~r.writes => dbOk)
          /\ (~r.assessed => ai.kind = "unavailable")
          /\ messages' = IF wrote THEN update(messages, m, r.data) ELSE messages
          /\ calls' = [calls EXCEPT ![c] =
                         [call EXCEPT
                            !.pc = IF last THEN "fetch" ELSE "page",
                            !.run.page = Tail(@),
                            !.run.stats = stats,
                            !.run.handled = @ + 1,
                            !.run.offset = IF last THEN @ + processors.batchSize ELSE @]]
    /\ UNCHANGED <<processors, notifications, isProcessing, config, probe, lastIndex,
                   delivered, clock>>

\* FilterProcessorService.processAllUnfilteredMessages(batchSize)
StartFilter(c, batchSize) ==
    /\ NextFree(c)
    /\ LET call == [IdleCall EXCEPT !.kind = "filter", !.run.stats = ZeroFilterStats]
       IN IF processors.filter
          THEN /\ calls' = [calls EXCEPT ![c] = Refuse(call, filterBusyAnswer)]
               /\ UNCHANGED processors
          ELSE /\ calls' = [calls EXCEPT ![c] =
                              [call EXCEPT
                                 !.pc = "fetch",
                                 !.run.batchSize = batchSize,
                                 !.run.hasMore = TRUE,
                                 !.run.pending = {m \in MsgIds : ~messages[m].is_filtered}]]
               /\ processors' = [processors EXCEPT !.filter = TRUE]
    /\ UNCHANGED <<messages, notifications, isProcessing, config, probe, lastIndex,
                   delivered, clock, faults>>

\* what messageDAO.getUnfilteredMessages does: resolve with the rows, resolve
\* with success = false, or reject
FetchAnswers == {"rows", "failed", "rejected"}

\* one turn of the while loop up to processBatch, or its end: a failed query
\* and an empty page break out of the loop and the totals are returned; a
\* rejection is rethrown by the catch block; all pass through finally
FetchFilter(c, answer) ==
    /\ calls[c].kind = "filter" /\ calls[c].pc = "fetch"
    /\ calls[c].run.hasMore => calls[c].run.pages < MaxPages
    /\ Fail(Cost(calls[c].run.hasMore /\ answer # "rows"))
    /\ (~calls[c].run.hasMore => answer = "rows")
    /\ LET call == calls[c]
           run == call.run
           data == getUnfilteredMessages(messages, run.batchSize)
       IN IF run.hasMore /\ answer = "rejected"
          THEN /\ calls' = [calls EXCEPT ![c] =
                              [call EXCEPT !.pc = "done", !.run.outcome = "throw"]]
               /\ processors' = released(processors, "filter")
          ELSE IF ~run.hasMore \/ answer = "failed" \/ data = <<>>
          THEN /\ calls' = [calls EXCEPT ![c] =
                              [call EXCEPT
                                 !.pc = "done", !.run.outcome = "stats",
                                 !.run.hasMore = IF run.hasMore /\ answer = "rows"
                                                 THEN Len(data) = run.batchSize
                                                 ELSE @]]
               /\ processors' = released(processors, "filter")
          ELSE /\ calls' = [calls EXCEPT ![c] =
                              [call EXCEPT !.pc = "page", !.run.page = data,
                                           !.run.hasMore = Len(data) = run.batchSize,
                                           !.run.pages = @ + 1]]
               /\ UNCHANGED processors
    /\ UNCHANGED <<messages, notifications, isProcessing, config, probe, lastIndex,
                   delivered, clock>>

\* FilterProcessorService.processBatch, one row: filterContent, then
\* updateFilterStatus(message_id, !isFiltered), then the counters
ProcessFilter(c, dbOk) ==
    /\ calls[c].kind = "filter" /\ calls[c].pc = "page"
    /\ Fail(Cost(~dbOk))
    /\ LET call == calls[c]
           run == call.run
           m == Head(run.page)
           fr == filterContent(Content(m), lastIndex)
           stats == IF dbOk
                    THEN [run.stats EXCEPT
                            !.processed = @ + 1,
                            !.filtered = IF fr.isFiltered THEN @ + 1 ELSE @,
                            !.allowed = IF fr.isFiltered THEN @ ELSE @ + 1]
                    ELSE [run.stats EXCEPT !.errors = @ + 1]
       IN /\ lastIndex' = fr.li
          /\ messages' = IF dbOk THEN updateFilterStatus(messages, m, ~fr.isFiltered)
                         ELSE messages
          /\ calls' = [calls EXCEPT ![c] =
                         [call EXCEPT
                            !.pc = IF Tail(run.page) = <<>> THEN "fetch" ELSE "page",
                            !.run.page = Tail(@),
                            !.run.stats = stats,
                            !.run.handled = @ + 1]]
    /\ UNCHANGED <<processors, notifications, isProcessing, config, probe, delivered, clock>>

\* the rows as the feed stored them, some already carrying the pass mark
\* (set by the filter stage, or by MessageDAO.update)
InitProcessors ==
    /\ messages \in [MsgIds -> {NewMessage, [NewMessage EXCEPT !.is_filtered = TRUE]}]
    /\ notifications = <<>>
    /\ isProcessing = FALSE
    /\ config = DefaultConfig
    /\ lastIndex = [dots |-> 0, sep |-> 0]
    /\ calls = [c \in CallIds |-> IdleCall]
    /\ delivered = <<>>
    /\ clock = 210
    /\ faults = 0
    /\ probe = NoProbe
    /\ processors \in {[NoProcessors EXCEPT !.batchSize = b] : b \in BatchSizes}

NextProcessors ==
    \/ \E c \in CallIds : StartAI(c)
    \/ \E c \in CallIds, ok \in BOOLEAN : FetchAI(c, ok)
    \/ \E c \in CallIds, ai \in AIOutcomes, dbOk \in BOOLEAN : ProcessAI(c, ai, dbOk)
    \/ \E c \in CallIds, b \in BatchSizes : StartFilter(c, b)
    \/ \E c \in CallIds, answer \in FetchAnswers : FetchFilter(c, answer)
    \/ \E c \in CallIds, dbOk \in BOOLEAN : ProcessFilter(c, dbOk)

SpecProcessors == InitProcessors /\ [][NextProcessors]_vars

(***************************************************************************)
(* The two fallback assessments: AIAnalysisService                         *)
(* .calculateFallbackImportance, used when the assessment service cannot   *)
(* reach its model, and AIProcessorService.getFallbackAnalysis, used when  *)
(* the service call fails or there is no service.  A text is given by its  *)
(* length, by how many of the processor's four critical words it contains  *)
(* (all four are in the assessor's list too) and by how many of the other  *)
(* eleven keywords of the assessor's list.                                 *)
(***************************************************************************)
\* AIAnalysisService.calculateFallbackImportance(content)
calculateFallbackImportance(len, matchedKeywords) ==
    Max(0, Min(100, 30 + (IF len > 200 THEN 10 ELSE 0) + (IF len > 500 THEN 10 ELSE 0)
                       + matchedKeywords * 15))

FallbackLengths == {6, 200, 201, 500, 501, 600}
FallbackPaths == {"assessor", "processor"}

FallbackProbe ==
    /\ probe.op = "none"
    /\ \E len \in FallbackLengths, critical \in 0..4, other \in 0..3,
          path \in FallbackPaths :
         LET text == [QuakeText EXCEPT !.len = len, !.trimLen = len,
                                       !.fallbackWords = critical > 0]
         IN probe' = [op |-> "fallback", done |-> TRUE, path |-> path, len |-> len,
                      matched |-> critical + other,
                      score |-> IF path = "assessor"
                                THEN calculateFallbackImportance(len, critical + other)
                                ELSE getFallbackAnalysis(text)]
    /\ UNCHANGED <<processors, messages, notifications, isProcessing, config, lastIndex,
                   calls, delivered, clock, faults>>

NextFallback == FallbackProbe

SpecFallback == Init /\ [][NextFallback]_vars

(***************************************************************************)
(* sendAllPendingNotifications, called again and again, over one record    *)
(* more than a page of NotificationDAO.getAll holds.                       *)
(***************************************************************************)
NumPending == DefaultLimit + 1

InitPending ==
    /\ messages = [m \in MsgIds |->
                     IF m = 1
                     THEN [is_filtered |-> TRUE, is_processed |-> TRUE,
                           importance_score |-> calculateScore(Content(1), 100, 210),
                           category |-> "breaking_news"]
                     ELSE NewMessage]
    /\ notifications = [n \in 1..NumPending |->
                          NewNotification(((n - 1) % NumUsers) + 1, 1)]
    /\ isProcessing = FALSE
    /\ config = [DefaultConfig EXCEPT !.enableAutoSending = FALSE]
    /\ lastIndex = [dots |-> 0, sep |-> 0]
    /\ calls = [c \in CallIds |-> IdleCall]
    /\ delivered = [n \in 1..NumPending |-> NoDelivery]
    /\ clock = 210
    /\ faults = 0
    /\ probe = NoProbe
    /\ processors = NoProcessors

NextPending ==
    \/ \E c \in CallIds : SendNext(c)
    \/ NoCallInFlight /\ \E c \in CallIds : StartSendAll(c)

SpecPending == InitPending /\ [][NextPending]_vars

\* The three batch entry points that keep an in-progress flag, called on one
\* pipeline, one AIProcessorService and one FilterProcessorService over the
\* same table.
NextGuards ==
    \/ \E c \in CallIds, S \in SUBSET MsgIds : StartBatch(c, S)
    \/ \E c \in CallIds : BatchNext(c)
    \/ \E c \in CallIds : FilterStage(c)
    \/ \E c \in CallIds : AIStage(c)
    \/ \E c \in CallIds : NotifyStage(c)
    \/ \E c \in CallIds : SendNext(c)
    \/ \E c \in CallIds : StartAI(c)
    \/ \E c \in CallIds, ok \in BOOLEAN : FetchAI(c, ok)
    \/ \E c \in CallIds, ai \in AIOutcomes, dbOk \in BOOLEAN : ProcessAI(c, ai, dbOk)
    \/ \E c \in CallIds, b \in BatchSizes : StartFilter(c, b)
    \/ \E c \in CallIds, answer \in FetchAnswers : FetchFilter(c, answer)
    \/ \E c \in CallIds, dbOk \in BOOLEAN : ProcessFilter(c, dbOk)

SpecGuards == Init /\ [][NextGuards]_vars

(***************************************************************************)
(* Properties.                                                             *)
(***************************************************************************)
BatchInFlight(c) == calls[c].kind = "batch" /\ calls[c].pc # "done"

\* C1: a processBatch call that starts while another batch is in flight
\* returns at once with all-zero stats, writes no message and no notification
\* record and leaves the batch in flight as it is; at no time are two batches
\* in progress.
C1_SingleFlight ==
    [][ /\ Cardinality({c \in CallIds : BatchInFlight(c)'}) <= 1
        /\ \A c, d \in CallIds :
             (calls[c].kind = "idle" /\ calls'[c].kind = "batch" /\ BatchInFlight(d))
             => /\ calls'[c].pc = "done"
                /\ calls'[c].stats = ZeroStats
                /\ calls'[c].msg = 0
                /\ messages' = messages
                /\ notifications' = notifications
                /\ calls'[d] = calls[d] ]_vars

C1_Witness ==
    \E c, d \in CallIds :
        /\ calls[c].kind = "batch" /\ calls[c].refused
        /\ BatchInFlight(d) /\ calls[d].msg # 0

\* C2: the store holds at most one notification record of kind immediate for
\* each (recipient, message) pair.
C2_AtMostOneRecord ==
    \A i, j \in 1..Len(notifications) :
        ( /\ notifications[i].user_id = notifications[j].user_id
          /\ notifications[i].message_id = notifications[j].message_id
          /\ notifications[i].notification_type = "immediate"
          /\ notifications[j].notification_type = "immediate" ) => i = j

\* C3: in every reachable state every message with processed=true also has
\* pass-filter=true (the is_filtered column holds the pass-filter flag).
C3_ProcessedImpliesPassed ==
    \A m \in MsgIds : messages[m].is_processed => messages[m].is_filtered

\* C4: a record already marked sent is never handed to the delivery channel
\* again, and the channel accepts each record at most once over any sequence
\* of bulk-send calls.
C4_DeliveredAtMostOnce ==
    \A n \in 1..Len(delivered) :
        ~delivered[n].afterSent /\ delivered[n].accepted <= 1

\* C5: once a notification record has sent=true, no step sets it back to
\* sent=false.
C5_SentMonotonic ==
    [][\A n \in 1..Len(notifications) :
          notifications[n].is_sent => notifications'[n].is_sent]_vars

\* C6: when a Dispatcher call has returned, every record it reports as
\* delivered (per-record success=true) is stored with sent=true and a sent-at
\* time.
C6_ReportedSentIsPersisted ==
    \A c \in CallIds :
        (calls[c].kind \in {"sendBulk", "sendAll"} /\ calls[c].pc = "done")
        => \A i \in 1..Len(calls[c].delivery.results) :
             LET r == calls[c].delivery.results[i]
             IN r.success => /\ notifications[r.notification_id].is_sent
                             /\ notifications[r.notification_id].sent_at # "null"

\* C7: a record whose delivery fails in a Dispatcher pass keeps its sent flag
\* (an unsent record stays unsent), is counted in failed, and adds exactly one
\* error string, which names its recipient; the pass goes on with the records
\* that remain.
C7_FailureIsRecorded ==
    [][\A c \in CallIds :
          LET before == calls[c].delivery
              after == calls'[c].delivery
              n == Head(calls[c].dlist)
          IN ( /\ calls[c].pc = "send"
               /\ Len(after.results) = Len(before.results) + 1
               /\ ~after.results[Len(after.results)].success )
             => /\ notifications'[n].is_sent = notifications[n].is_sent
                /\ after.failed = before.failed + 1
                /\ after.successful = before.successful
                /\ after.errors = Append(before.errors, notifications[n].user_id)
                /\ calls'[c].dlist = Tail(calls[c].dlist)]_vars

\* a pass in which the first record failed and the next one was delivered
C7_Witness ==
    \E c \in CallIds :
        LET d == calls[c].delivery
        IN /\ Len(d.results) >= 2
           /\ ~d.results[1].success /\ d.results[2].success
           /\ ~notifications[d.results[1].notification_id].is_sent
           /\ d.failed = 1 /\ d.successful = 1
           /\ d.errors = <<d.results[1].user_id>>

\* processSingleMessage has returned its result for calls[c].msg
Returned(c) ==
    /\ calls[c].kind \in {"single", "batch"}
    /\ calls[c].pc \in {"done", "delay"}
    /\ calls[c].msg # 0

\* C8: whenever a read or write of the store failed while a message was being
\* processed (filter-flag write, processed/score/category write, re-read of
\* the message, user lookup or notification creation), the per-message result
\* reports failure: success=false with an error.
C8_StoreFailureReported ==
    \A c \in CallIds :
        (Returned(c) /\ calls[c].result.storeFailed)
        => (~calls[c].result.success /\ calls[c].result.error)

\* C9: a notification record for a message is created only when that message
\* is stored with processed=true.
C9_ProcessedBeforeNotified ==
    [][\A n \in (Len(notifications) + 1)..Len(notifications') :
          messages[notifications'[n].message_id].is_processed]_vars

\* C10: when processSingleMessage finds the message blocked by the filter it
\* writes pass-filter=false (unless that write itself fails) and returns: it
\* makes no assessment call, does not write the processed flag, creates no
\* notification record and delivers nothing, and its result has
\* filtered=false, analyzed=false, notificationsCreated=0, notificationsSent=0.
C10_BlockedStops ==
    \A c \in CallIds :
        calls[c].result.blocked
        => /\ calls[c].pc \in {"done", "delay"}
           /\ calls[c].result.storeFailed \/ calls[c].result.filterWrite = "false"
           /\ ~calls[c].result.assessed
           /\ calls[c].result.processedWrites = 0
           /\ calls[c].created = <<>>
           /\ calls[c].delivery = ZeroDelivery
           /\ ~calls[c].result.filtered
           /\ ~calls[c].result.analyzed
           /\ calls[c].result.notificationsCreated = 0
           /\ calls[c].result.notificationsSent = 0

C10_Witness ==
    \E c \in CallIds :
        /\ calls[c].kind = "single" /\ calls[c].pc = "done"
        /\ calls[c].result.blocked /\ calls[c].result.success
        /\ calls[c].result.filterWrite = "false"
        /\ ~messages[calls[c].msg].is_filtered

\* C11: for a message whose content is null, or on any other internal error,
\* analyze returns the safe result: isCritical=false, criticalityScore=0,
\* confidence=0 and a 'failed' reason, whatever the stored score and category.
C11_NullContentSafeResult ==
    (probe.op = "analyze" /\ probe.content.kind # "string")
    => /\ ~probe.result.is_critical
       /\ probe.result.criticality_score = 0
       /\ probe.result.confidence = 0
       /\ probe.result.failed


\* C12: the filter has no hidden state: an input submitted again to the same
\* filter instance, after any earlier calls, gets the decision it got the first
\* time; in particular an input blocked once is blocked on every re-submission.
C12_SameInputSameDecision ==
    (probe.op = "filter" /\ probe.before # "none")
    => (probe.isFiltered <=> probe.before = "blocked")


\* C13: within one bulk send, two consecutive delivery attempts to the same
\* recipient are at least 200 ms apart, and the last attempt for one recipient
\* and the first for the next are at least 100 ms apart, whether the earlier
\* attempt succeeded or failed.
C13_DelaysBetweenAttempts ==
    \A c \in CallIds :
        calls[c].gap.from # 0
        => IF calls[c].gap.from = calls[c].gap.to
           THEN calls[c].gap.ms >= PerUserDelay
           ELSE calls[c].gap.ms >= GlobalDelay

\* a bulk send has made a second attempt to a recipient whose first attempt failed
C13_Witness ==
    \E c \in CallIds :
        /\ calls[c].gap.from # 0
        /\ calls[c].gap.from = calls[c].gap.to
        /\ calls[c].gap.fromFailed


\* C14: when isChatAccessible is asked about a record's recipient (a user who
\* has notifications on) and answers false, the record is not handed to the
\* channel in that pass, is reported failed with 'Chat not accessible' and stays
\* unsent, and the pass goes on; a later record of the same call whose
\* recipient is reachable and whose send succeeds is handed to the channel and
\* marked sent.
C14_UnreachableIsolated ==
    [][\A c \in CallIds :
          LET n == Head(calls[c].dlist)
              asked == User(notifications[n].user_id).notifications
              before == calls[c].delivery
              after == calls'[c].delivery
          IN /\ (Deliver(c, "chat_not_accessible") /\ asked)
                => /\ delivered'[n] = delivered[n]
                   /\ notifications' = notifications
                   /\ after.failed = before.failed + 1
                   /\ after.successful = before.successful
                   /\ ~after.results[Len(after.results)].success
                   /\ after.results[Len(after.results)].error = "Chat not accessible"
                   /\ calls'[c].dlist = Tail(calls[c].dlist)
             /\ (Deliver(c, "sent") /\ asked /\ before.failed > 0)
                => /\ delivered'[n].handed = delivered[n].handed + 1
                   /\ notifications'[n].is_sent
                   /\ after.successful = before.successful + 1]_vars

\* a pass whose first record met an unreachable chat and was not handed over,
\* and whose next record was delivered and marked sent
C14_Witness ==
    \E c \in CallIds :
        LET d == calls[c].delivery
        IN /\ Len(d.results) >= 2
           /\ d.results[1].error = "Chat not accessible"
           /\ delivered[d.results[1].notification_id].handed = 0
           /\ ~notifications[d.results[1].notification_id].is_sent
           /\ d.results[2].success
           /\ notifications[d.results[2].notification_id].is_sent


\* C15: a record whose recipient has notifications disabled when it is
\* dispatched is never handed to the delivery channel; it is reported failed
\* and stays unsent.
C15_DisabledNeverHanded ==
    [][\A c \in CallIds :
          LET n == Head(calls[c].dlist)
              before == calls[c].delivery
              after == calls'[c].delivery
          IN Deliver(c, "notifications_disabled")
             => /\ delivered'[n].handed = delivered[n].handed
                /\ notifications'[n] = notifications[n]
                /\ ~after.results[Len(after.results)].success
                /\ after.results[Len(after.results)].notification_id = n
                /\ after.failed = before.failed + 1]_vars

\* a pass has dispatched an unsent record to a recipient who had turned
\* notifications off
C15_Witness ==
    \E c \in CallIds :
        LET d == calls[c].delivery
        IN \E i \in DOMAIN d.results :
             /\ d.results[i].error = "Notifications disabled for user"
             /\ ~d.results[i].success
             /\ delivered[d.results[i].notification_id].handed = 0
             /\ ~notifications[d.results[i].notification_id].is_sent


\* C16: a recipient whose notifications are disabled is not eligible, for any
\* criticality result (critical with score 100 included) and any time of day.
C16_DisabledNotEligible ==
    (probe.op = "shouldNotifyUser" /\ ~probe.user.notifications)
    => ~probe.shouldNotify

\* the decider was asked about a critical result of score 100 for a recipient
\* with notifications off, outside their quiet hours
C16_Witness ==
    /\ probe.op = "shouldNotifyUser"
    /\ ~probe.user.notifications
    /\ probe.analysis = [is_critical |-> TRUE, criticality_score |-> 100]
    /\ probe.user.quiet_hours.set
    /\ ~isInQuietHours(probe.user, probe.now)
    /\ ~probe.shouldNotify

\* the minutes of the day from start to end, walking forward past midnight
\* when start is later than end
QuietWindow(q) ==
    IF ~q.set THEN {}
    ELSE LET from == q.start[1] * 60 + q.start[2]
             to == q.end[1] * 60 + q.end[2]
         IN {(from + k) % 1440 : k \in 0..((to - from + 1440) % 1440)}

\* C17: for a recipient who passes the other checks (notifications on, score
\* at or above the threshold, critical result), inside the quiet-hours window
\* (wrapping midnight when start is later than end) the recipient is eligible
\* exactly when the score is at least 90, and outside the window is eligible.
C17_QuietHours ==
    ( /\ probe.op = "shouldNotifyUser"
      /\ probe.user.notifications
      /\ probe.analysis.criticality_score >= probe.user.importance_threshold
      /\ probe.analysis.is_critical )
    => IF probe.now \in QuietWindow(probe.user.quiet_hours)
       THEN probe.shouldNotify <=> probe.analysis.criticality_score >= 90
       ELSE probe.shouldNotify

\* a critical result of score 85 at 03:30 for a recipient whose quiet hours
\* run from 22:00 to 08:00 was found not eligible
C17_Witness ==
    /\ probe.op = "shouldNotifyUser"
    /\ probe.user.notifications
    /\ probe.user.quiet_hours = [set |-> TRUE, start |-> <<22, 0>>, end |-> <<8, 0>>]
    /\ probe.analysis = [is_critical |-> TRUE, criticality_score |-> 85]
    /\ probe.user.importance_threshold = 50
    /\ probe.now = 210
    /\ ~probe.shouldNotify


\* C18: a record of kind immediate is created for a recipient and a message
\* only if the classifier judged the message critical, the recipient is active
\* and shouldNotifyUser accepted the recipient for that message's result; for
\* a message that is not critical no record is created at all.
C18_RecordsOnlyForEligible ==
    probe.op = "processMessageForNotifications"
    => /\ \A i \in DOMAIN probe.data :
            LET user == probe.users[probe.data[i].user_id]
            IN /\ probe.data[i].notification_type = "immediate"
               /\ probe.data[i].message_id = probe.message_id
               /\ probe.analysis.is_critical
               /\ user.is_active
               /\ shouldNotifyUser(user, probe.analysis, probe.now)
       /\ ~probe.analysis.is_critical => probe.data = <<>>

\* a critical message gave a record to the eligible recipient and none to an
\* inactive one who would otherwise be eligible
C18_Witness ==
    /\ probe.op = "processMessageForNotifications"
    /\ probe.analysis.is_critical
    /\ Len(probe.data) = 1
    /\ \E u \in UserIds :
         /\ u # probe.data[1].user_id
         /\ ~probe.users[u].is_active
         /\ shouldNotifyUser(probe.users[u], probe.analysis, probe.now)


\* the assessment stage of call c ran with the given answers and left the
\* message stored as processed with a score in 0..100, the external service
\* having been called once when it failed and not at all when it is absent
FallbackPersisted(c, ai, dbOk) ==
    Assess(c, ai, dbOk)
    => /\ messages'[calls[c].msg].is_processed
       /\ messages'[calls[c].msg].importance_score \in 0..100
       /\ calls'[c].result.externalCalls = (IF calls'[c].result.assessed THEN 1 ELSE 0)
       /\ calls'[c].result.assessed => ai.kind = "error"

RECURSIVE FailedAmong(_, _)
FailedAmong(outcomes, k) ==
    IF k = 0 THEN 0
    ELSE FailedAmong(outcomes, k - 1) + (IF outcomes[k] THEN 0 ELSE 1)

\* C20: a batch that was accepted passes every message of its list to
\* processSingleMessage exactly once and in list order, whatever the earlier
\* results were: a failed result adds one to errors and the loop goes on, and
\* when the batch returns stats.processed is the length of the list.
C20_BatchAttemptsAll ==
    \A c \in CallIds :
        (calls[c].kind = "batch" /\ ~calls[c].refused)
        => LET call == calls[c]
           IN /\ call.attempted \o call.queue = call.input
              /\ call.stats.processed = Len(call.outcomes)
              /\ call.stats.errors = FailedAmong(call.outcomes, Len(call.outcomes))
              /\ Len(call.outcomes) \in {Len(call.attempted), Len(call.attempted) - 1}
              /\ call.pc = "done"
                 => /\ call.attempted = call.input
                    /\ call.stats.processed = Len(call.input)

\* a batch of two messages has returned: the first message failed, the second
\* was still processed
C20_Witness ==
    \E c \in CallIds :
        /\ calls[c].kind = "batch" /\ calls[c].pc = "done"
        /\ Len(calls[c].input) = 2
        /\ calls[c].outcomes = <<FALSE, TRUE>>
        /\ calls[c].stats.processed = 2
        /\ calls[c].stats.errors = 1


\* C21: in a batch, stats.filtered is the number of successfully processed
\* messages that passed the content filter (per-message filtered=true);
\* messages the filter blocked are not counted in it.
C21_FilteredCountsPassed ==
    \A c \in CallIds :
        calls[c].kind = "batch"
        => calls[c].stats.filtered
             = Cardinality({i \in DOMAIN calls[c].passed : calls[c].passed[i]})

(***************************************************************************)
(* The stand-alone processors.                                             *)
(***************************************************************************)
Processors == {"ai", "filter"}

\* a call of a stand-alone processor that found the flag set
RefusedRun(c) == calls[c].kind \in Processors /\ calls[c].refused

\* C22: a call of a stand-alone batch processor made while another call on
\* the same instance is in flight returns all-zero stats at once: it raises
\* no error and handles no message.
C22_BusyCallGetsEmptyStats ==
    \A c \in CallIds :
        RefusedRun(c)
        => /\ calls[c].run.outcome = "stats"
           /\ calls[c].run.stats \in {getEmptyStats, ZeroFilterStats}
           /\ calls[c].run.handled = 0

\* a call of processAllUnprocessedMessages that held the flag and returned
\* its totals with no error and no failed message
CleanAIRun(c) ==
    /\ calls[c].kind = "ai" /\ calls[c].pc = "done" /\ ~calls[c].refused
    /\ calls[c].run.outcome = "stats"
    /\ calls[c].run.stats.errors = 0 /\ calls[c].run.stats.failed = 0

\* C28: when processAllUnprocessedMessages returns without error and every
\* per-message processing in it succeeded, every message that had the pass
\* mark and was unprocessed when the call started is processed.
C28_AllPendingProcessed ==
    \A c \in CallIds :
        CleanAIRun(c) => \A m \in calls[c].run.pending : messages[m].is_processed

\* the in-progress flag of the pipeline / of a stand-alone processor
GuardFlag(kind) == IF kind = "batch" THEN isProcessing ELSE processors[kind]

\* a batch call of that kind that passed the guard and has neither returned
\* nor thrown
HoldsGuard(c, kind) ==
    calls[c].kind = kind /\ ~calls[c].refused /\ calls[c].pc # "done"

GuardedKinds == {"batch", "ai", "filter"}

\* C27: the in-progress guard of the pipeline, of the assessment processor
\* and of the filter processor is always released: once the batch call that
\* set the flag has returned or thrown the flag is false (it is set only
\* while such a call is in flight), and a batch call issued when no batch of
\* that entry point is in flight is never refused.
C27_GuardReleased ==
    [][ \A kind \in GuardedKinds :
          /\ GuardFlag(kind)' => \E c \in CallIds : HoldsGuard(c, kind)'
          /\ \A c \in CallIds :
                (/\ calls[c].kind = "idle" /\ calls'[c].kind = kind
                 /\ ~\E d \in CallIds : HoldsGuard(d, kind))
                => ~calls'[c].refused ]_vars

\* a batch call of each kind has ended (the filter processor's by throwing,
\* the assessment processor's through its catch block) and a later call of
\* the same entry point was accepted
C27_Witness ==
    \E c, d \in CallIds :
        /\ c < d
        /\ calls[c].kind \in GuardedKinds /\ calls[c].pc = "done" /\ ~calls[c].refused
        /\ calls[c].kind = "filter" => calls[c].run.outcome = "throw"
        /\ calls[c].kind = "ai" => calls[c].run.stats.errors = 1
        /\ calls[c].kind = "batch" => calls[c].stats.processed > 0
        /\ calls[d].kind = calls[c].kind /\ ~calls[d].refused

\* a processSingleMessage or processBatch call of the pipeline that has been
\* accepted and has not returned
PipelineCallInFlight(c) ==
    calls[c].kind \in {"single", "batch"} /\ calls[c].pc \notin {"idle", "done"}

\* C26: a pipeline instance processes at most one message at a time, counting
\* both entry points: while a batch is in progress no processSingleMessage
\* call runs on the same instance, so the two paths never interleave.
C26_OneMessageAtATime ==
    Cardinality({c \in CallIds : PipelineCallInFlight(c)}) <= 1

\* C23: with the default configuration a message with a text and a stored
\* importance score of at least 90 is classified critical, with a criticality
\* score of at least 80 and the action immediate_notification, whatever its
\* text and category are.
C23_HighImportanceIsCritical ==
    ( /\ probe.op = "analyze"
      /\ probe.content.kind = "string"
      /\ probe.msg.importance_score >= 90 )
    => /\ probe.result.is_critical
       /\ probe.result.criticality_score >= 80
       /\ probe.result.action = "immediate_notification"

\* a bulk send called with a list of records (sendBulkNotifications directly
\* or through sendAllPendingNotifications)
BulkSend(c) == calls[c].kind \in {"sendBulk", "sendAll"} /\ calls[c].input # <<>>

\* the position of record n in the list the bulk send was given
InputPosition(c, n) == CHOOSE i \in DOMAIN calls[c].input : calls[c].input[i] = n

\* C24: in a bulk send the records of one recipient are attempted one after
\* the other, in the order in which they stand in the input list, and when
\* the send has returned every input record has exactly one result.
C24_GroupedInInputOrder ==
    \A c \in CallIds :
        BulkSend(c)
        => LET res == calls[c].delivery.results
           IN /\ \A i, j, k \in DOMAIN res :
                    (i < j /\ j < k /\ res[i].user_id = res[k].user_id)
                    => res[j].user_id = res[i].user_id
              /\ \A i, j \in DOMAIN res :
                    (i < j /\ res[i].user_id = res[j].user_id)
                    => InputPosition(c, res[i].notification_id)
                         < InputPosition(c, res[j].notification_id)
              /\ \A i \in DOMAIN res : \E k \in DOMAIN calls[c].input :
                    calls[c].input[k] = res[i].notification_id
              /\ \A i, j \in DOMAIN res :
                    res[i].notification_id = res[j].notification_id => i = j
              /\ calls[c].pc = "done" => Len(res) = Len(calls[c].input)

\* a returned bulk send whose input list alternated between two recipients
C24_Witness ==
    \E c \in CallIds :
        /\ BulkSend(c) /\ calls[c].pc = "done"
        /\ Len(calls[c].input) >= 3
        /\ notifications[calls[c].input[1]].user_id
             # notifications[calls[c].input[2]].user_id
        /\ notifications[calls[c].input[1]].user_id
             = notifications[calls[c].input[3]].user_id

\* C25: on every path that produces a fallback assessment the importance
\* score is min(100, 30 + 10 if the text is longer than 200 characters + 10
\* more if it is longer than 500 + 15 for each matched critical keyword).
C25_FallbackFormula ==
    probe.op = "fallback"
    => probe.score = Min(100, 30 + (IF probe.len > 200 THEN 10 ELSE 0)
                                 + (IF probe.len > 500 THEN 10 ELSE 0)
                                 + 15 * probe.matched)

\* C29: when sendAllPendingNotifications has returned and every delivery it
\* attempted succeeded, every record that was unsent when it was called is
\* sent, however many there were.
C29_AllPendingSent ==
    \A c \in CallIds :
        ( /\ calls[c].kind = "sendAll" /\ calls[c].pc = "done"
          /\ calls[c].delivery.failed = 0 )
        => \A n \in calls[c].unsent : notifications[n].is_sent

\* C30: for every result of the classifier, under every configuration set
\* through updateConfig, the recommended action is immediate_notification or
\* priority_notification exactly when is_critical is true.
C30_ActionMatchesCritical ==
    probe.op = "analyzeConfigured"
    => (probe.result.is_critical
        <=> probe.result.action \in {"immediate_notification", "priority_notification"})
====
